---------------------------- MODULE Spec2Model ----------------------------
(***************************************************************************)
(* A model of fc.go: the FC session (NewFC, StartUpdating, reconnect,      *)
(* handleFrame) and the Flash sequence.                                    *)
(*                                                                         *)
(* Strings are sequences of byte values, as Go's string(fr.Payload) makes  *)
(* them.  Bit masks (uint32 features, uint16 FunctionMask) are the sets of *)
(* the bit positions that are set: & is \cap, | is \cup, 0 is {}.          *)
(***************************************************************************)
EXTENDS Integers, Sequences, FiniteSets, TLC

VARIABLES
    pc,            \* where the main goroutine is: "new", "receive", "reconnect", "exit", "panic"
    msp,           \* f.msp: 0 is nil, n > 0 is the n-th transport opened
    opened,        \* number of transports NewMSP has opened so far
    closed,        \* the transports msp.Close() was called on
    enableDebugTrace, \* f.opts.EnableDebugTrace
    variant,       \* f.variant
    versionMajor,  \* f.versionMajor
    versionMinor,  \* f.versionMinor
    versionPatch,  \* f.versionPatch
    boardID,       \* f.boardID
    targetName,    \* f.targetName
    features,      \* f.features
    out,           \* the commands the last step wrote: <<handle, code, argument>>
    printed,       \* the lines the last step printed
    last,          \* the last step and its input (of a call of versionGte:
                   \* its arguments and its result)
    flashPc,       \* where a call of Flash is: "idle" (not called), the step it is
                   \* about to take, or "returned"
    flashTarget,   \* Flash's local targetName, once resolved
    flashErr,      \* the error Flash returned, or its format; "" is nil
    flashErrArg,   \* the argument of the format of flashErr; <<>> is none
    cmd,           \* dfuFlash's local cmd: the arguments of the dfu-util command
    ran,           \* the external tools and collaborators the call of Flash has
                   \* used so far, in order (the polls of one loop count once)
    objFiles,      \* Flash's local files: what ReadDir returned
    binary,        \* Flash's local binary: the name of the file chosen, <<>> is nil
    elapsed,       \* seconds since dfuWait was entered
    answered,      \* history, kept by the steps of SpecOrder: the requests of
                   \* updateInfo the board has answered in this session
    written        \* history, kept by the steps of SpecOrder: the commands
                   \* written in this session after those of updateInfo

idVars   == <<variant, versionMajor, versionMinor, versionPatch, boardID, targetName, features>>
connVars == <<msp, opened, closed>>
flashVars == <<flashPc, flashTarget, flashErr, flashErrArg, cmd, ran, objFiles,
               binary, elapsed>>
histVars == <<answered, written>>
vars     == <<pc, msp, opened, closed, enableDebugTrace, variant, versionMajor,
              versionMinor, versionPatch, boardID, targetName, features, out,
              printed, last, flashPc, flashTarget, flashErr, flashErrArg, cmd,
              ran, objFiles,
              binary, elapsed, answered, written>>

----------------------------------------------------------------------------
(* Bounds of the model. *)

\* transports the model opens at most (the initial one and the reconnects)
MaxOpens == 2
\* serial ports in one serial-port-configuration frame at most
MaxPorts == 2
\* length of the target names board-info frames carry at most
MaxNameLen == 2

----------------------------------------------------------------------------
(* Strings and masks. *)

\* "INAV"
INAV == <<73, 78, 65, 86>>
\* "BTFL"
BTFL == <<66, 84, 70, 76>>

\* the feature bit and the serial function bits, as sets of bit positions
mspFCFeatureDebugTrace   == {31}
serialFunctionMSP        == {0}
serialFunctionDebugTrace == {15}

\* s[from : to] of Go, 0-indexed, to exclusive
Slice(s, from, to) == [i \in 1..(to - from) |-> s[from + i]]

NoArg == <<>>


----------------------------------------------------------------------------
(* The frames the codec hands to handleFrame.  A frame is [code, payload]; *)
(* the payload is a byte sequence, except that a feature frame carries the *)
(* uint32 fr.Read decodes and a serial-config frame the entries fr.Read    *)
(* yields one by one, with how the reading ends.                           *)

NoFrame == [code |-> "none", payload |-> <<>>]

Frame(c, p) == [code |-> c, payload |-> p]

VariantPayloads == {INAV, BTFL}

VersionPayloads == {<<0, 9, 1>>, <<1, 8, 2>>, <<1, 9, 0>>}

\* the board ID "AFNA"
BoardIDs == {<<65, 70, 78, 65>>}

\* the four bytes after the board ID: HW revision, OSD type, VCP
BoardHW == <<0, 0, 2, 1>>

\* target names of up to MaxNameLen bytes: prefixes of "T1T1..."
NameOfLen(n) == [i \in 1..n |-> IF i % 2 = 1 THEN 84 ELSE 49]
BoardNames == {NameOfLen(n) : n \in 0..MaxNameLen}

\* board-info payloads: the ID alone, the ID and the four bytes, and those
\* followed by a length byte and a name (as long as, shorter than, or
\* longer than the length byte says)
BoardInfoPayloads ==
    BoardIDs
    \cup {id \o BoardHW : id \in BoardIDs}
    \cup {id \o BoardHW \o <<n>> \o nm :
            id \in BoardIDs, n \in 0..(MaxNameLen + 1), nm \in BoardNames}

\* a build-info payload: date (11), time (8), revision
BuildInfoPayload == [i \in 1..26 |-> 48 + (i % 10)]

FeatureMasks == SUBSET (mspFCFeatureDebugTrace \cup {0})

FunctionMasks == {{1}, serialFunctionMSP \cup {1}, serialFunctionDebugTrace,
                  serialFunctionMSP \cup serialFunctionDebugTrace}

MSPSerialConfig(id, m) == [Identifier |-> id, FunctionMask |-> m]

\* the entry sequences of up to MaxPorts ports, port i having identifier i - 1
SerialConfigs ==
    UNION {{[i \in 1..n |-> MSPSerialConfig(i - 1, ms[i])] :
              ms \in [1..n -> FunctionMasks]} : n \in 0..MaxPorts}

\* readErr: fr.Read ends the entries with an error that is not io.EOF
SerialPayloads ==
    {[entries |-> e, readErr |-> FALSE] : e \in SerialConfigs}
    \cup {[entries |-> <<>>, readErr |-> TRUE]}

Frames ==
    {Frame("mspAPIVersion", <<0, 2, 1>>)}
    \cup {Frame("mspFCVariant", p) : p \in VariantPayloads}
    \cup {Frame("mspFCVersion", p) : p \in VersionPayloads}
    \cup {Frame("mspBoardInfo", p) : p \in BoardInfoPayloads}
    \cup {Frame("mspBuildInfo", BuildInfoPayload)}
    \cup {Frame("mspFeature", m) : m \in FeatureMasks}
    \cup {Frame("mspCFSerialConfig", p) : p \in SerialPayloads}
    \cup {Frame(c, <<>>) : c \in {"mspReboot", "mspSetFeature",
                                  "mspSetCFSerialConfig", "mspEepromWrite",
                                  "mspUnknown"}}
    \cup {Frame("mspDebugMsg", <<104, 105, 10>>)}

----------------------------------------------------------------------------
(* FC's helpers. *)

\* the seven commands updateInfo writes, in its order
updateInfo ==
    <<"mspAPIVersion", "mspFCVariant", "mspFCVersion", "mspBoardInfo",
      "mspBuildInfo", "mspFeature", "mspCFSerialConfig">>

\* f.msp.WriteCmd(code, arg) on transport h
WriteCmd(h, code, arg) == <<h, code, arg>>

\* the lines printInfo prints with the fields as they are
printInfo ==
    IF variant # <<>> /\ versionMajor # 0 /\ boardID # <<>>
    THEN << <<"info", variant, versionMajor, versionMinor, versionPatch,
              boardID, targetName>> >>
    ELSE <<>>

\* versionGte as it would be if it compared field by field
versionGte_EachField(major, minor, patch) ==
    versionMajor >= major /\ versionMinor >= minor /\ versionPatch >= patch

versionGte(major, minor, patch) ==
    \/ versionMajor > major
    \/ (versionMajor = major /\ versionMinor > minor)
    \/ (versionMajor = major /\ versionMinor = minor /\ versionPatch >= patch)

shouldEnableDebugTrace ==
    enableDebugTrace /\ variant = INAV /\ versionGte(1, 9, 0)

\* whether the read loop finds a port with both function bits
hasDebugTraceMSPPort(serialConfigs) ==
    LET mask == serialFunctionMSP \cup serialFunctionDebugTrace
    IN  \E i \in DOMAIN serialConfigs :
            serialConfigs[i].FunctionMask \cap mask = mask

\* the loop as it would be without its break: every MSP port gets the bit
RECURSIVE EnableOnAllMSPPorts(_, _)
EnableOnAllMSPPorts(serialConfigs, ii) ==
    IF ii > Len(serialConfigs)
    THEN [cfgs |-> serialConfigs, lines |-> <<>>]
    ELSE IF serialConfigs[ii].FunctionMask \cap serialFunctionMSP # {}
         THEN LET rest == EnableOnAllMSPPorts(
                              [serialConfigs EXCEPT ![ii].FunctionMask =
                                   @ \cup serialFunctionDebugTrace], ii + 1)
              IN  [cfgs  |-> rest.cfgs,
                   lines |-> << <<"enabling serial", serialConfigs[ii].Identifier>> >>
                             \o rest.lines]
         ELSE EnableOnAllMSPPorts(serialConfigs, ii + 1)

\* the loop over serialConfigs from index ii on: the sequence with the
\* debug-trace bit set on the first MSP port, and the lines printed
RECURSIVE EnableOnFirstMSPPort(_, _)
EnableOnFirstMSPPort(serialConfigs, ii) ==
    IF ii > Len(serialConfigs)
    THEN [cfgs |-> serialConfigs, lines |-> <<>>]
    ELSE IF serialConfigs[ii].FunctionMask \cap serialFunctionMSP # {}
         THEN [cfgs  |-> [serialConfigs EXCEPT ![ii].FunctionMask =
                              @ \cup serialFunctionDebugTrace],
               lines |-> << <<"enabling serial", serialConfigs[ii].Identifier>> >>]
         ELSE EnableOnFirstMSPPort(serialConfigs, ii + 1)

\* reset as it would be without its last assignment
reset_KeepsFeatures ==
    /\ variant' = <<>>
    /\ versionMajor' = 0
    /\ versionMinor' = 0
    /\ versionPatch' = 0
    /\ boardID' = <<>>
    /\ targetName' = <<>>
    /\ features' = features

reset ==
    /\ variant' = <<>>
    /\ versionMajor' = 0
    /\ versionMinor' = 0
    /\ versionPatch' = 0
    /\ boardID' = <<>>
    /\ targetName' = <<>>
    /\ features' = {}

----------------------------------------------------------------------------
(* handleFrame, one definition per case of its switch.  Each gives the     *)
(* fields, the commands written, the lines printed and where the loop goes.*)

HandleAPIVersion(fr) ==
    /\ fr.code = "mspAPIVersion"
    /\ printed' = << <<"api", fr.payload[2], fr.payload[3], fr.payload[1]>> >>
    /\ out' = <<>>
    /\ pc' = "receive"
    /\ UNCHANGED idVars

HandleFCVariant(fr) ==
    /\ fr.code = "mspFCVariant"
    /\ variant' = fr.payload
    /\ UNCHANGED <<versionMajor, versionMinor, versionPatch, boardID,
                   targetName, features>>
    /\ printed' = printInfo'
    /\ out' = <<>>
    /\ pc' = "receive"

HandleFCVersion(fr) ==
    /\ fr.code = "mspFCVersion"
    /\ versionMajor' = fr.payload[1]
    /\ versionMinor' = fr.payload[2]
    /\ versionPatch' = fr.payload[3]
    /\ UNCHANGED <<variant, boardID, targetName, features>>
    /\ printed' = printInfo'
    /\ out' = <<>>
    /\ pc' = "receive"

\* the board-info case as it would be with the name taken from byte 8 on
HandleBoardInfo_NameFromLengthByte(fr) ==
    /\ fr.code = "mspBoardInfo"
    /\ boardID' = Slice(fr.payload, 0, 4)
    /\ targetName' =
          IF Len(fr.payload) >= 9
          THEN LET targetNameLength == fr.payload[9]
               IN  IF Len(fr.payload) > 8 + targetNameLength
                   THEN Slice(fr.payload, 8, 8 + targetNameLength)
                   ELSE targetName
          ELSE targetName
    /\ UNCHANGED <<variant, versionMajor, versionMinor, versionPatch, features>>
    /\ printed' = printInfo'
    /\ out' = <<>>
    /\ pc' = "receive"

HandleBoardInfo(fr) ==
    /\ fr.code = "mspBoardInfo"
    /\ boardID' = Slice(fr.payload, 0, 4)
    /\ targetName' =
          IF Len(fr.payload) >= 9
          THEN LET targetNameLength == fr.payload[9]
               IN  IF Len(fr.payload) > 8 + targetNameLength
                   THEN Slice(fr.payload, 9, 9 + targetNameLength)
                   ELSE targetName
          ELSE targetName
    /\ UNCHANGED <<variant, versionMajor, versionMinor, versionPatch, features>>
    /\ printed' = printInfo'
    /\ out' = <<>>
    /\ pc' = "receive"

HandleBuildInfo(fr) ==
    /\ fr.code = "mspBuildInfo"
    /\ printed' = << <<"build", Slice(fr.payload, 19, Len(fr.payload)),
                       Slice(fr.payload, 0, 11), Slice(fr.payload, 11, 19)>> >>
    /\ out' = <<>>
    /\ pc' = "receive"
    /\ UNCHANGED idVars

\* the feature case as it would be without the test of the received bit
HandleFeature_IgnoresBit(fr) ==
    /\ fr.code = "mspFeature"
    /\ LET read   == fr.payload
           enable == shouldEnableDebugTrace
       IN  /\ features' = IF enable THEN read \cup mspFCFeatureDebugTrace
                                    ELSE read
           /\ printed' = IF enable THEN << <<"enabling feature">> >> ELSE <<>>
           /\ out' = IF enable
                     THEN <<WriteCmd(msp, "mspSetFeature", features'),
                            WriteCmd(msp, "mspEepromWrite", NoArg)>>
                     ELSE <<>>
    /\ pc' = "receive"
    /\ UNCHANGED <<variant, versionMajor, versionMinor, versionPatch, boardID,
                   targetName>>

HandleFeature(fr) ==
    /\ fr.code = "mspFeature"
    /\ LET read   == fr.payload
           enable == (read \cap mspFCFeatureDebugTrace = {})
                     /\ shouldEnableDebugTrace
       IN  /\ features' = IF enable THEN read \cup mspFCFeatureDebugTrace
                                    ELSE read
           /\ printed' = IF enable THEN << <<"enabling feature">> >> ELSE <<>>
           /\ out' = IF enable
                     THEN <<WriteCmd(msp, "mspSetFeature", features'),
                            WriteCmd(msp, "mspEepromWrite", NoArg)>>
                     ELSE <<>>
    /\ pc' = "receive"
    /\ UNCHANGED <<variant, versionMajor, versionMinor, versionPatch, boardID,
                   targetName>>

HandleCFSerialConfig(fr) ==
    /\ fr.code = "mspCFSerialConfig"
    /\ UNCHANGED idVars
    /\ IF ~shouldEnableDebugTrace
       THEN /\ printed' = <<>>
            /\ out' = <<>>
            /\ pc' = "receive"
       ELSE IF fr.payload.readErr
       THEN \* panic(err)
            /\ printed' = <<>>
            /\ out' = <<>>
            /\ pc' = "panic"
       ELSE LET serialConfigs == fr.payload.entries
                patched == EnableOnFirstMSPPort(serialConfigs, 1)
            IN  IF hasDebugTraceMSPPort(serialConfigs)
                THEN /\ printed' = <<>>
                     /\ out' = <<>>
                     /\ pc' = "receive"
                ELSE /\ printed' = patched.lines
                     /\ out' = <<WriteCmd(msp, "mspSetCFSerialConfig", patched.cfgs),
                                 WriteCmd(msp, "mspEepromWrite", NoArg)>>
                     /\ pc' = "receive"

HandleReboot(fr) ==
    /\ fr.code = "mspReboot"
    /\ printed' = << <<"rebooting">> >>
    /\ out' = <<>>
    /\ pc' = "receive"
    /\ UNCHANGED idVars

HandleDebugMsg(fr) ==
    /\ fr.code = "mspDebugMsg"
    /\ printed' = << <<"debug", fr.payload>> >>
    /\ out' = <<>>
    /\ pc' = "receive"
    /\ UNCHANGED idVars

HandleNothing(fr) ==
    /\ fr.code \in {"mspSetFeature", "mspSetCFSerialConfig", "mspEepromWrite"}
    /\ printed' = <<>>
    /\ out' = <<>>
    /\ pc' = "receive"
    /\ UNCHANGED idVars

HandleDefault(fr) ==
    /\ fr.code = "mspUnknown"
    /\ printed' = << <<"unhandled", fr.code, fr.payload>> >>
    /\ out' = <<>>
    /\ pc' = "receive"
    /\ UNCHANGED idVars

handleFrame(fr) ==
    \/ HandleAPIVersion(fr)
    \/ HandleFCVariant(fr)
    \/ HandleFCVersion(fr)
    \/ HandleBoardInfo(fr)
    \/ HandleBuildInfo(fr)
    \/ HandleFeature(fr)
    \/ HandleCFSerialConfig(fr)
    \/ HandleReboot(fr)
    \/ HandleDebugMsg(fr)
    \/ HandleNothing(fr)
    \/ HandleDefault(fr)

----------------------------------------------------------------------------
(* NewFC, StartUpdating and reconnect. *)

Last(op, fr) == [op |-> op, fr |-> fr]

\* NewFC: NewMSP fails and NewFC returns the error, or it opens the
\* transport and updateInfo writes the seven requests
NewFCFails ==
    /\ pc = "new"
    /\ pc' = "exit"
    /\ out' = <<>>
    /\ printed' = <<>>
    /\ last' = Last("NewFC failed", NoFrame)
    /\ UNCHANGED <<connVars, enableDebugTrace, idVars>>
    /\ UNCHANGED <<flashVars, histVars>>

NewFC ==
    /\ pc = "new"
    /\ opened < MaxOpens
    /\ opened' = opened + 1
    /\ msp' = opened'
    /\ out' = [i \in DOMAIN updateInfo |-> WriteCmd(msp', updateInfo[i], NoArg)]
    /\ printed' = <<>>
    /\ pc' = "receive"
    /\ last' = Last("NewFC", NoFrame)
    /\ UNCHANGED <<closed, enableDebugTrace, idVars>>
    /\ UNCHANGED <<flashVars, histVars>>

\* StartUpdating: ReadFrame returns a frame, which handleFrame handles
ReadFrame(fr) ==
    /\ pc = "receive"
    /\ handleFrame(fr)
    /\ last' = Last("frame", fr)
    /\ UNCHANGED <<connVars, enableDebugTrace>>
    /\ UNCHANGED <<flashVars, histVars>>

\* StartUpdating: ReadFrame returns io.EOF; reconnect closes the transport
\* and enters its loop
ReadEOF ==
    /\ pc = "receive"
    /\ printed' = << <<"disconnected">> >>
    /\ IF msp # 0
       THEN closed' = closed \cup {msp} /\ msp' = 0
       ELSE UNCHANGED <<closed, msp>>
    /\ out' = <<>>
    /\ pc' = "reconnect"
    /\ last' = Last("EOF", NoFrame)
    /\ UNCHANGED <<opened, enableDebugTrace, idVars>>
    /\ UNCHANGED <<flashVars, histVars>>

\* the loop as it would be if it returned the error of NewMSP, on which
\* StartUpdating panics
ReconnectFails_ReturnsError ==
    /\ pc = "reconnect"
    /\ pc' = "panic"
    /\ out' = <<>>
    /\ printed' = <<>>
    /\ last' = [op |-> "open failed", fr |-> NoFrame]
    /\ UNCHANGED <<connVars, enableDebugTrace, idVars>>
    /\ UNCHANGED <<flashVars, histVars>>

\* reconnect's loop: NewMSP fails, the loop sleeps and tries again
ReconnectFails ==
    /\ pc = "reconnect"
    /\ pc' = "reconnect"
    /\ out' = <<>>
    /\ printed' = <<>>
    /\ last' = Last("open failed", NoFrame)
    /\ UNCHANGED <<connVars, enableDebugTrace, idVars>>
    /\ UNCHANGED <<flashVars, histVars>>

\* reconnect's loop: NewMSP succeeds; reset, the new transport, updateInfo
ReconnectSucceeds ==
    /\ pc = "reconnect"
    /\ opened < MaxOpens
    /\ opened' = opened + 1
    /\ printed' = << <<"reconnected">> >>
    /\ reset
    /\ msp' = opened'
    /\ out' = [i \in DOMAIN updateInfo |-> WriteCmd(msp', updateInfo[i], NoArg)]
    /\ pc' = "receive"
    /\ last' = Last("reconnected", NoFrame)
    /\ UNCHANGED <<closed, enableDebugTrace>>
    /\ UNCHANGED <<flashVars, histVars>>

\* StartUpdating as it would be if it treated an MSPError as it treats
\* io.EOF
ReadMSPError_Reconnects ==
    /\ pc = "receive"
    /\ printed' = << <<"msp error">> >>
    /\ IF msp # 0
       THEN closed' = closed \cup {msp} /\ msp' = 0
       ELSE UNCHANGED <<closed, msp>>
    /\ out' = <<>>
    /\ pc' = "reconnect"
    /\ last' = [op |-> "MSPError", fr |-> NoFrame]
    /\ UNCHANGED <<opened, enableDebugTrace, idVars>>
    /\ UNCHANGED <<flashVars, histVars>>

\* StartUpdating: ReadFrame returns an MSPError; it is printed, the loop goes on
ReadMSPError ==
    /\ pc = "receive"
    /\ printed' = << <<"msp error">> >>
    /\ out' = <<>>
    /\ pc' = "receive"
    /\ last' = Last("MSPError", NoFrame)
    /\ UNCHANGED <<connVars, enableDebugTrace, idVars>>
    /\ UNCHANGED <<flashVars, histVars>>

\* StartUpdating: ReadFrame returns any other error: panic(err)
ReadOtherError ==
    /\ pc = "receive"
    /\ printed' = <<>>
    /\ out' = <<>>
    /\ pc' = "panic"
    /\ last' = Last("other error", NoFrame)
    /\ UNCHANGED <<connVars, enableDebugTrace, idVars>>
    /\ UNCHANGED <<flashVars, histVars>>

Init ==
    /\ pc = "new"
    /\ msp = 0
    /\ opened = 0
    /\ closed = {}
    /\ enableDebugTrace \in BOOLEAN
    /\ variant = <<>>
    /\ versionMajor = 0
    /\ versionMinor = 0
    /\ versionPatch = 0
    /\ boardID = <<>>
    /\ targetName = <<>>
    /\ features = {}
    /\ out = <<>>
    /\ printed = <<>>
    /\ last = Last("none", NoFrame)
    /\ flashPc = "idle"
    /\ flashTarget = <<>>
    /\ flashErr = ""
    /\ flashErrArg = <<>>
    /\ cmd = <<>>
    /\ ran = <<>>
    /\ objFiles = <<>>
    /\ binary = <<>>
    /\ elapsed = 0
    /\ answered = {}
    /\ written = <<>>

Next ==
    \/ NewFCFails
    \/ NewFC
    \/ \E fr \in Frames : ReadFrame(fr)
    \/ ReadEOF
    \/ ReconnectFails
    \/ ReconnectSucceeds
    \/ ReadMSPError
    \/ ReadOtherError

Spec == Init /\ [][Next]_vars

----------------------------------------------------------------------------
(* The policy of the debug trace over many versions. *)

\* the bytes the versions and the arguments of versionGte are made of
VersionBytes == {0, 1, 9, 10}

VersionTriples ==
    {<<major, minor, patch>> : major \in VersionBytes, minor \in VersionBytes,
                               patch \in VersionBytes}

\* the frames that set what the policy reads, and those it guards
PolicyFrames ==
    {Frame("mspFCVariant", p) : p \in VariantPayloads}
    \cup {Frame("mspFCVersion", p) : p \in VersionTriples}
    \cup {Frame("mspFeature", m) : m \in {{}, mspFCFeatureDebugTrace}}
    \cup {Frame("mspCFSerialConfig",
                [entries |-> <<MSPSerialConfig(0, serialFunctionMSP)>>,
                 readErr |-> FALSE])}

\* a call of versionGte(major, minor, patch)
CallVersionGte(major, minor, patch) ==
    /\ pc = "receive"
    /\ last' = Last("versionGte",
                    Frame("versionGte",
                          [args |-> <<major, minor, patch>>,
                           result |-> versionGte(major, minor, patch)]))
    /\ out' = <<>>
    /\ printed' = <<>>
    /\ UNCHANGED <<pc, connVars, enableDebugTrace, idVars>>
    /\ UNCHANGED <<flashVars, histVars>>

NextPolicy ==
    \/ NewFC
    \/ \E fr \in PolicyFrames : ReadFrame(fr)
    \/ \E t \in VersionTriples : CallVersionGte(t[1], t[2], t[3])

SpecPolicy == Init /\ [][NextPolicy]_vars

----------------------------------------------------------------------------
(* One session with a board that supports the debug trace and has it off,  *)
(* which answers each request of updateInfo once, in any order.            *)

\* what the board answers
BoardResponses ==
    {Frame("mspAPIVersion", <<0, 2, 1>>),
     Frame("mspFCVariant", INAV),
     Frame("mspBoardInfo", CHOOSE p \in BoardInfoPayloads : TRUE),
     Frame("mspBuildInfo", BuildInfoPayload)}
    \cup {Frame("mspFCVersion", p) : p \in {<<1, 9, 0>>, <<2, 0, 0>>}}
    \cup {Frame("mspFeature", m) : m \in {{}, {0}}}
    \cup {Frame("mspCFSerialConfig", [entries |-> e, readErr |-> FALSE]) :
            e \in {<<MSPSerialConfig(0, serialFunctionMSP)>>,
                   <<MSPSerialConfig(0, serialFunctionMSP
                                        \cup serialFunctionDebugTrace)>>}}

\* StartUpdating: ReadFrame returns the response fr to a request that has
\* not been answered yet, which handleFrame handles
ReadResponse(fr) ==
    /\ pc = "receive"
    /\ fr.code \notin answered
    /\ handleFrame(fr)
    /\ last' = Last("frame", fr)
    /\ answered' = answered \cup {fr.code}
    /\ written' = written \o [i \in DOMAIN out' |-> <<out'[i][2], out'[i][3]>>]
    /\ UNCHANGED <<connVars, enableDebugTrace>>
    /\ UNCHANGED flashVars

NextOrder ==
    \/ NewFC
    \/ \E fr \in BoardResponses : ReadResponse(fr)

\* EnableDebugTrace is asked for
InitOrder == Init /\ enableDebugTrace

SpecOrder == InitOrder /\ [][NextOrder]_vars

----------------------------------------------------------------------------
(* Flash: file names and the choice of the binary. *)

\* the byte values of the printable characters, but for the quote, the
\* backslash and the backquote
Ascii ==
    (" " :> 32) @@ ("!" :> 33) @@ ("#" :> 35) @@ ("$" :> 36) @@ ("%" :> 37)
    @@ ("&" :> 38) @@ ("'" :> 39) @@ ("(" :> 40) @@ (")" :> 41)
    @@ ("*" :> 42) @@ ("+" :> 43) @@ ("," :> 44) @@ ("-" :> 45)
    @@ ("." :> 46) @@ ("/" :> 47) @@ ("0" :> 48) @@ ("1" :> 49)
    @@ ("2" :> 50) @@ ("3" :> 51) @@ ("4" :> 52) @@ ("5" :> 53)
    @@ ("6" :> 54) @@ ("7" :> 55) @@ ("8" :> 56) @@ ("9" :> 57)
    @@ (":" :> 58) @@ (";" :> 59) @@ ("<" :> 60) @@ ("=" :> 61)
    @@ (">" :> 62) @@ ("?" :> 63) @@ ("@" :> 64) @@ ("A" :> 65)
    @@ ("B" :> 66) @@ ("C" :> 67) @@ ("D" :> 68) @@ ("E" :> 69)
    @@ ("F" :> 70) @@ ("G" :> 71) @@ ("H" :> 72) @@ ("I" :> 73)
    @@ ("J" :> 74) @@ ("K" :> 75) @@ ("L" :> 76) @@ ("M" :> 77)
    @@ ("N" :> 78) @@ ("O" :> 79) @@ ("P" :> 80) @@ ("Q" :> 81)
    @@ ("R" :> 82) @@ ("S" :> 83) @@ ("T" :> 84) @@ ("U" :> 85)
    @@ ("V" :> 86) @@ ("W" :> 87) @@ ("X" :> 88) @@ ("Y" :> 89)
    @@ ("Z" :> 90) @@ ("[" :> 91) @@ ("]" :> 93) @@ ("^" :> 94)
    @@ ("_" :> 95) @@ ("a" :> 97) @@ ("b" :> 98)
    @@ ("c" :> 99) @@ ("d" :> 100) @@ ("e" :> 101) @@ ("f" :> 102)
    @@ ("g" :> 103) @@ ("h" :> 104) @@ ("i" :> 105) @@ ("j" :> 106)
    @@ ("k" :> 107) @@ ("l" :> 108) @@ ("m" :> 109) @@ ("n" :> 110)
    @@ ("o" :> 111) @@ ("p" :> 112) @@ ("q" :> 113) @@ ("r" :> 114)
    @@ ("s" :> 115) @@ ("t" :> 116) @@ ("u" :> 117) @@ ("v" :> 118)
    @@ ("w" :> 119) @@ ("x" :> 120) @@ ("y" :> 121) @@ ("z" :> 122)
    @@ ("{" :> 123) @@ ("|" :> 124) @@ ("}" :> 125) @@ ("~" :> 126)

\* the string written with the characters cs
Str(cs) == [i \in DOMAIN cs |-> Ascii[cs[i]]]

\* mod times run from 1 to MaxModTime
MaxModTime == 3

TARGET1 == Str(<<"T", "A", "R", "G", "E", "T", "1">>)

\* the targetName arguments Flash is called with
TargetArgs == {<<>>, TARGET1}

\* the names the files of the obj directory may have
FilePool ==
    {Str(<<"f", "o", "o", "T", "A", "R", "G", "E", "T", "1", ".", "b", "i", "n">>),
     Str(<<"b", "a", "r", "T", "A", "R", "G", "E", "T", "1", ".", "b", "i", "n">>),
     Str(<<"T", "A", "R", "G", "E", "T", "1", ".", "h", "e", "x">>),
     Str(<<"T", "2", ".", "b", "i", "n">>)}

FileInfo(n, t) == [name |-> n, modTime |-> t]

\* the obj directories: every file of the pool is absent (0) or has a mod time
Dirs == [FilePool -> 0..MaxModTime]
FilesOf(dir) == {FileInfo(n, dir[n]) : n \in {m \in FilePool : dir[m] > 0}}

\* a < b for strings, byte by byte
RECURSIVE StrLess(_, _)
StrLess(a, b) ==
    IF b = <<>> THEN FALSE
    ELSE IF a = <<>> THEN TRUE
    ELSE IF a[1] # b[1] THEN a[1] < b[1]
    ELSE StrLess(Tail(a), Tail(b))

\* ioutil.ReadDir: the files sorted by file name
RECURSIVE ReadDir(_)
ReadDir(fileSet) ==
    IF fileSet = {} THEN <<>>
    ELSE LET first == CHOOSE f \in fileSet :
                         \A g \in fileSet \ {f} : StrLess(f.name, g.name)
         IN  <<first>> \o ReadDir(fileSet \ {first})

\* filepath.Ext for a name without path separators: the suffix from the
\* last dot on, "" without a dot; i runs down from the last byte
RECURSIVE ExtFrom(_, _)
ExtFrom(name, i) ==
    IF i < 1 THEN <<>>
    ELSE IF name[i] = 46 THEN SubSeq(name, i, Len(name))
    ELSE ExtFrom(name, i - 1)
Ext(name) == ExtFrom(name, Len(name))

HasSuffix(str, suffix) ==
    /\ Len(str) >= Len(suffix)
    /\ SubSeq(str, Len(str) - Len(suffix) + 1, Len(str)) = suffix

NoFile == FileInfo(<<>>, 0)

\* the loop as it would be without the comparison of the mod times: the
\* last matching file is chosen
RECURSIVE LocateBinary_TakesLast(_, _, _, _)
LocateBinary_TakesLast(files, i, bin, target) ==
    IF i > Len(files) THEN bin
    ELSE LET name   == files[i].name
             nonExt == SubSeq(name, 1, Len(name) - 4)
             takes  == /\ Ext(name) = Str(<<".", "b", "i", "n">>)
                       /\ HasSuffix(nonExt, target)
         IN  LocateBinary_TakesLast(files, i + 1,
                                    IF takes THEN files[i] ELSE bin, target)

\* the loop over files from index i on, with the binary chosen so far
RECURSIVE LocateBinary(_, _, _, _)
LocateBinary(files, i, bin, target) ==
    IF i > Len(files) THEN bin
    ELSE LET name   == files[i].name
             nonExt == SubSeq(name, 1, Len(name) - 4)
             takes  == /\ Ext(name) = Str(<<".", "b", "i", "n">>)
                       /\ HasSuffix(nonExt, target)
                       /\ (bin = NoFile \/ bin.modTime < files[i].modTime)
         IN  LocateBinary(files, i + 1, IF takes THEN files[i] ELSE bin, target)

----------------------------------------------------------------------------
(* Flash, one action per stretch of code between two calls of an external  *)
(* tool.  A call of Flash runs beside the receive loop.                    *)

FCIsRunning == pc \in {"receive", "reconnect"}

\* what a step of Flash leaves alone
FlashFrame == UNCHANGED <<connVars, enableDebugTrace, idVars, histVars>>

\* Flash returns err
FlashReturns(err) ==
    /\ flashPc' = "returned"
    /\ flashErr' = err
    /\ flashErrArg' = <<>>

\* Flash returns fmt.Errorf(format, arg)
FlashReturnsErrorf(format, arg) ==
    /\ flashPc' = "returned"
    /\ flashErr' = format
    /\ flashErrArg' = arg

\* Flash goes on with step
FlashGoesOn(step) ==
    /\ flashPc' = step
    /\ flashErr' = ""
    /\ flashErrArg' = <<>>

\* Flash as it would be if the detected target name won over the argument
FlashCall_DetectedWins(arg) ==
    /\ FCIsRunning
    /\ flashPc = "idle"
    /\ LET resolved == IF targetName # <<>> THEN targetName ELSE arg
       IN  /\ flashTarget' = resolved
           /\ IF resolved = <<>>
              THEN FlashReturns("empty target name")
              ELSE FlashGoesOn("LookPath")
    /\ out' = <<>>
    /\ printed' = <<>>
    /\ last' = [op |-> "Flash", fr |-> Frame("arg", arg)]
    /\ UNCHANGED <<pc, cmd, ran, objFiles, binary, elapsed>>
    /\ FlashFrame

\* Flash is called with targetName = arg and resolves its target
FlashCall(arg) ==
    /\ FCIsRunning
    /\ flashPc = "idle"
    /\ LET resolved == IF arg = <<>> THEN targetName ELSE arg
       IN  /\ flashTarget' = resolved
           /\ IF resolved = <<>>
              THEN FlashReturns("empty target name")
              ELSE FlashGoesOn("LookPath")
    /\ out' = <<>>
    /\ printed' = <<>>
    /\ last' = Last("Flash", Frame("arg", arg))
    /\ UNCHANGED <<pc, cmd, ran, objFiles, binary, elapsed>>
    /\ FlashFrame

\* exec.LookPath("dfu-util")
FlashLookPath(found) ==
    /\ FCIsRunning
    /\ flashPc = "LookPath"
    /\ ran' = Append(ran, "LookPath")
    /\ IF found THEN FlashGoesOn("make")
                ELSE FlashReturns("LookPath failed")
    /\ out' = <<>>
    /\ printed' = <<>>
    /\ last' = Last("LookPath", NoFrame)
    /\ UNCHANGED <<pc, flashTarget, cmd, objFiles, binary, elapsed>>
    /\ FlashFrame

\* make binary with TARGET=targetName
FlashBuild(ok) ==
    /\ FCIsRunning
    /\ flashPc = "make"
    /\ printed' = << <<"building", flashTarget>> >>
    /\ ran' = Append(ran, "make")
    /\ IF ok THEN FlashGoesOn("ReadDir")
             ELSE FlashReturns("make failed")
    /\ out' = <<>>
    /\ last' = Last("make", Frame("TARGET", flashTarget))
    /\ UNCHANGED <<pc, flashTarget, cmd, objFiles, binary, elapsed>>
    /\ FlashFrame

\* ioutil.ReadDir(obj) fails
FlashReadDirFails ==
    /\ FCIsRunning
    /\ flashPc = "ReadDir"
    /\ ran' = Append(ran, "ReadDir")
    /\ FlashReturns("ReadDir failed")
    /\ out' = <<>>
    /\ printed' = <<>>
    /\ last' = Last("ReadDir failed", NoFrame)
    /\ UNCHANGED <<pc, flashTarget, cmd, objFiles, binary, elapsed>>
    /\ FlashFrame

\* Flash as it would be without the check of binary == nil
FlashLocateBinary_GoesOnWithoutBinary(dir) ==
    /\ FCIsRunning
    /\ flashPc = "ReadDir"
    /\ ran' = Append(ran, "ReadDir")
    /\ objFiles' = ReadDir(FilesOf(dir))
    /\ LET bin == LocateBinary(objFiles', 1, NoFile, flashTarget)
       IN  /\ binary' = bin.name
           /\ FlashGoesOn("dfuReboot")
           /\ printed' = << <<"rebooting in DFU mode">> >>
    /\ out' = <<>>
    /\ last' = [op |-> "ReadDir", fr |-> NoFrame]
    /\ UNCHANGED <<pc, flashTarget, cmd, elapsed>>
    /\ FlashFrame

\* ioutil.ReadDir(obj) returns the files of dir; the binary is chosen
FlashLocateBinary(dir) ==
    /\ FCIsRunning
    /\ flashPc = "ReadDir"
    /\ ran' = Append(ran, "ReadDir")
    /\ objFiles' = ReadDir(FilesOf(dir))
    /\ LET bin == LocateBinary(objFiles', 1, NoFile, flashTarget)
       IN  /\ binary' = bin.name
           /\ IF bin = NoFile
              THEN /\ FlashReturnsErrorf("could not find binary for target",
                                         flashTarget)
                   /\ printed' = <<>>
              ELSE /\ FlashGoesOn("dfuReboot")
                   /\ printed' = << <<"rebooting in DFU mode">> >>
    /\ out' = <<>>
    /\ last' = Last("ReadDir", NoFrame)
    /\ UNCHANGED <<pc, flashTarget, cmd, elapsed>>
    /\ FlashFrame

----------------------------------------------------------------------------
(* Flash: the DFU steps.  A line of dfu-util --list is a string; the model *)
(* keeps beside it what the code computes of it: whether it starts with    *)
(* dfuDevicePrefix once trimmed, and of the rest whether it contains       *)
(* internalFlashMarker and what the three patterns of dfuFlash find in it. *)

\* seconds dfuWait waits
DfuWaitSeconds == 30

\* lines in one listing of dfu-util --list at most
MaxLines == 2

\* the seconds one run of dfu-util --list may take
ListSeconds == {0, 30, 31}

dfuDevicePrefix == Str(<<"F", "o", "u", "n", "d", " ", "D", "F", "U", ":",
                         " ">>)
internalFlashMarker ==
    Str(<<"@", "I", "n", "t", "e", "r", "n", "a", "l", " ", "F", "l", "a",
          "s", "h", " ", " ", "/">>)

\* strings.HasPrefix(s[i:], prefix), i counted from 1
HasPrefixAt(s, i, prefix) ==
    /\ i + Len(prefix) - 1 <= Len(s)
    /\ SubSeq(s, i, i + Len(prefix) - 1) = prefix

HasPrefix(s, prefix) == HasPrefixAt(s, 1, prefix)

Contains(s, substr) == \E i \in 1..(Len(s) + 1) : HasPrefixAt(s, i, substr)

RECURSIVE TrimLeft(_, _)
TrimLeft(s, cutset) ==
    IF s # <<>> /\ s[1] \in cutset THEN TrimLeft(Tail(s), cutset) ELSE s

RECURSIVE TrimRight(_, _)
TrimRight(s, cutset) ==
    IF s # <<>> /\ s[Len(s)] \in cutset
    THEN TrimRight(SubSeq(s, 1, Len(s) - 1), cutset) ELSE s

\* strings.Trim(s, cutset)
Trim(s, cutset) == TrimRight(TrimLeft(s, cutset), cutset)

\* "\n\r\t "
TrimCutset == {10, 13, 9, 32}

Quote == 34
Digits == 48..57

(* The three patterns of dfuFlash have one shape: a literal, a group that   *)
(* takes characters of one class, and a closing literal that is not of the  *)
(* class.  Greedy or not, the group then is the whole run of characters of  *)
(* the class after the literal; the pattern matches where the run has at    *)
(* least min characters and the closing literal follows it.                 *)
Pattern(lit, class, min, closing) ==
    [lit |-> lit, class |-> class, min |-> min, closing |-> closing]

\* alt=(\d+)
altPattern == Pattern(Str(<<"a", "l", "t", "=">>), Digits, 1, <<>>)

\* serial="(.*?)": the dot is any character but the line feed
serialPattern ==
    Pattern(Str(<<"s", "e", "r", "i", "a", "l", "=">>) \o <<Quote>>,
            (0..255) \ {10, Quote}, 0, <<Quote>>)

\* Internal Flash  /([\dx]*?)/
offsetPattern ==
    Pattern(Str(<<"I", "n", "t", "e", "r", "n", "a", "l", " ", "F", "l", "a",
                  "s", "h", " ", " ", "/">>),
            Digits \cup {Ascii["x"]}, 0, Str(<<"/">>))

\* the first index from i on whose character is not of class
RECURSIVE RunEnd(_, _, _)
RunEnd(s, i, class) ==
    IF i <= Len(s) /\ s[i] \in class THEN RunEnd(s, i + 1, class) ELSE i

\* pattern matches s from index i on
MatchesAt(pattern, s, i) ==
    /\ HasPrefixAt(s, i, pattern.lit)
    /\ LET from == i + Len(pattern.lit)
           to == RunEnd(s, from, pattern.class)
       IN  to - from >= pattern.min /\ HasPrefixAt(s, to, pattern.closing)

\* regexpFind: the group of the leftmost match, "" without a match
regexpFind(pattern, s) ==
    LET starts == {i \in 1..Len(s) : MatchesAt(pattern, s, i)}
    IN  IF starts = {} THEN <<>>
        ELSE LET i == CHOOSE j \in starts : \A k \in starts : j <= k
                 from == i + Len(pattern.lit)
             IN  SubSeq(s, from, RunEnd(s, from, pattern.class) - 1)

\* an element of devices: the string, whether it contains
\* internalFlashMarker, and what the three patterns find in it
DfuDevice(dev) ==
    [dev |-> dev,
     marker |-> Contains(dev, internalFlashMarker),
     alt |-> regexpFind(altPattern, dev),
     serial |-> regexpFind(serialPattern, dev),
     offset |-> regexpFind(offsetPattern, dev)]

\* a line of the output as dfuList treats it: trimmed, and a device if it
\* starts with dfuDevicePrefix, which is cut off
DfuLine(text) ==
    LET ll == Trim(text, TrimCutset)
        found == HasPrefix(ll, dfuDevicePrefix)
    IN  [text |-> text,
         found |-> found,
         device |-> DfuDevice(IF found
                              THEN SubSeq(ll, Len(dfuDevicePrefix) + 1, Len(ll))
                              ELSE <<>>)]

Quoted(s) == <<Quote>> \o s \o <<Quote>>

\* the fields of the device line of the comment in dfuFlash
DfuId ==
    Str(<<"[", "0", "4", "8", "3", ":", "d", "f", "1", "1", "]", " ", "v",
          "e", "r", "=", "2", "2", "0", "0", ",", " ", "d", "e", "v", "n",
          "u", "m", "=", "1", "7", ",", " ", "c", "f", "g", "=", "1", ",",
          " ", "i", "n", "t", "f", "=", "0", ",", " ", "p", "a", "t", "h",
          "=">>)
    \o Quoted(Str(<<"2", "0", "-", "1">>)) \o Str(<<",", " ">>)
AltField(alt) == Str(<<"a", "l", "t", "=">>) \o alt \o Str(<<",", " ">>)
NameField(name) ==
    Str(<<"n", "a", "m", "e", "=">>) \o Quoted(name) \o Str(<<",", " ">>)
SerialField(serial) ==
    Str(<<"s", "e", "r", "i", "a", "l", "=">>) \o Quoted(serial)

InternalFlashName ==
    Str(<<"@", "I", "n", "t", "e", "r", "n", "a", "l", " ", "F", "l", "a",
          "s", "h", " ", " ", "/", "0", "x", "0", "8", "0", "0", "0", "0",
          "0", "0", "/", "0", "4", "*", "0", "1", "6", "K", "g", ",", "0",
          "1", "*", "0", "6", "4", "K", "g", ",", "0", "7", "*", "1", "2",
          "8", "K", "g">>)
OptionBytesName ==
    Str(<<"@", "O", "p", "t", "i", "o", "n", " ", "B", "y", "t", "e", "s",
          " ", " ", "/", "0", "x", "1", "F", "F", "F", "C", "0", "0", "0",
          "/", "0", "1", "*", "0", "1", "6", " ", "e">>)
\* an offset with a character that [\dx] does not take
BadOffsetName ==
    Str(<<"@", "I", "n", "t", "e", "r", "n", "a", "l", " ", "F", "l", "a",
          "s", "h", " ", " ", "/", "0", "X", "0", "8", "0", "0", "0", "0",
          "0", "0", "/", "0", "4", "*", "0", "1", "6", "K", "g">>)
Serial == Str(<<"3", "2", "7", "6", "3", "6", "5", "D", "3", "3", "3", "6">>)

\* the device line of the comment in dfuFlash, as dfu-util --list prints it,
\* with a carriage return at its end
GoodLine ==
    dfuDevicePrefix \o DfuId \o AltField(Str(<<"0">>))
    \o NameField(InternalFlashName) \o SerialField(Serial) \o <<13>>

\* the internal flash of a device in runtime mode
RuntimeLine ==
    Str(<<"F", "o", "u", "n", "d", " ", "R", "u", "n", "t", "i", "m", "e",
           ":", " ">>) \o DfuId
    \o AltField(Str(<<"0">>)) \o NameField(InternalFlashName)
    \o SerialField(Serial)

\* the option bytes of the DFU device
OptionBytesLine ==
    dfuDevicePrefix \o DfuId \o AltField(Str(<<"1">>))
    \o NameField(OptionBytesName) \o SerialField(Serial)

\* its internal flash without alt, with an empty serial, with a bad offset
NoAltLine ==
    dfuDevicePrefix \o DfuId \o NameField(InternalFlashName)
    \o SerialField(Serial)
NoSerialLine ==
    dfuDevicePrefix \o DfuId \o AltField(Str(<<"0">>))
    \o NameField(InternalFlashName) \o SerialField(<<>>)
BadOffsetLine ==
    dfuDevicePrefix \o DfuId \o AltField(Str(<<"0">>))
    \o NameField(BadOffsetName) \o SerialField(Serial)

\* the lines dfu-util --list may print, numbered from 1
DfuTexts ==
    <<RuntimeLine, OptionBytesLine, GoodLine, NoAltLine, NoSerialLine,
      BadOffsetLine>>

\* line k as dfuList treats it
DfuLines == [k \in DOMAIN DfuTexts |-> DfuLine(DfuTexts[k])]

\* the number of the line text
LineNo(text) == CHOOSE k \in DOMAIN DfuTexts : DfuTexts[k] = text

\* what dfu-util --list may print: the numbers of its lines, in order
Listings == UNION {[1..n -> DOMAIN DfuTexts] : n \in 0..MaxLines}

\* the text of line i of listing
LineText(listing, i) == DfuTexts[listing[i]]

\* cmd.Run() of dfu-util --list: what it printed, and whether it returned
\* an error; a run that fails prints nothing, or a line before it fails
ListRun(listing, runErr) == [stdout |-> listing, err |-> runErr]
ListRuns ==
    {ListRun(listing, FALSE) : listing \in Listings}
    \cup {ListRun(listing, TRUE) : listing \in {<<>>, <<LineNo(GoodLine)>>}}

\* dfuList: the lines that start with dfuDevicePrefix, in order, without it
dfuList(listing) ==
    LET dfuLines == SelectSeq(listing, LAMBDA k : DfuLines[k].found)
    IN  [i \in DOMAIN dfuLines |-> DfuLines[dfuLines[i]].device]

\* the empty string as a device line: no pattern matches
NoDevice == DfuDevice(<<>>)

\* the loop of dfuFlash over devices from index i on
RECURSIVE FirstFlashDevice(_, _)
FirstFlashDevice(devices, i) ==
    IF i > Len(devices) THEN NoDevice
    ELSE IF devices[i].marker THEN devices[i]
    ELSE FirstFlashDevice(devices, i + 1)

\* ran with tool added, unless it is the tool used last
Ran(tool) == IF ran # <<>> /\ ran[Len(ran)] = tool THEN ran ELSE Append(ran, tool)

\* dfuReboot, and on success the entry of dfuWait; with f.msp nil the call
\* dereferences nil and the process panics.  files is dead once the binary
\* is chosen, and is dropped here.
FlashDfuReboot(ok) ==
    /\ FCIsRunning
    /\ flashPc = "dfuReboot"
    /\ objFiles' = <<>>
    /\ IF msp = 0
       THEN /\ pc' = "panic"
            /\ out' = <<>>
            /\ UNCHANGED <<flashPc, flashErr, flashErrArg, ran, elapsed>>
       ELSE /\ pc' = pc
            /\ out' = <<WriteCmd(msp, "mspRebootIntoBootloader", NoArg)>>
            /\ ran' = Append(ran, "RebootIntoBootloader")
            /\ IF ok THEN FlashGoesOn("dfuWait")
                     ELSE FlashReturns("RebootIntoBootloader failed")
            /\ elapsed' = 0
    /\ printed' = <<>>
    /\ last' = Last("dfuReboot", NoFrame)
    /\ UNCHANGED <<flashTarget, cmd, binary>>
    /\ FlashFrame

\* dfuWait: the deadline has passed
FlashDfuWaitTimesOut ==
    /\ FCIsRunning
    /\ flashPc = "dfuWait"
    /\ elapsed > DfuWaitSeconds
    /\ FlashReturns("timed out while waiting for board in DFU mode")
    /\ out' = <<>>
    /\ printed' = <<>>
    /\ last' = Last("dfuWait timeout", NoFrame)
    /\ UNCHANGED <<pc, flashTarget, cmd, ran, objFiles, binary, elapsed>>
    /\ FlashFrame

\* the loop as it would be if any DFU device ended the wait, the internal
\* flash or not
FlashDfuWaitPolls_AnyDevice(listing, d, runErr) ==
    /\ FCIsRunning
    /\ flashPc = "dfuWait"
    /\ ~(elapsed > DfuWaitSeconds)
    /\ elapsed' = elapsed + d
    /\ ran' = Ran("dfuWait --list")
    /\ flashPc' = IF dfuList(listing) # <<>> THEN "dfuFlash" ELSE "dfuWait"
    /\ out' = <<>>
    /\ printed' = <<>>
    /\ last' = [op |-> "dfuWait", fr |-> Frame("--list", ListRun(listing, runErr))]
    /\ UNCHANGED <<pc, flashTarget, flashErr, flashErrArg, cmd, objFiles, binary>>
    /\ FlashFrame

\* dfuWait: the deadline has not passed; dfuList runs dfu-util --list, which
\* takes d seconds and prints listing; dfuList drops the error of cmd.Run()
FlashDfuWaitPolls(listing, d, runErr) ==
    /\ FCIsRunning
    /\ flashPc = "dfuWait"
    /\ ~(elapsed > DfuWaitSeconds)
    /\ elapsed' = elapsed + d
    /\ ran' = Ran("dfuWait --list")
    /\ LET devices == dfuList(listing)
       IN  flashPc' = IF \E i \in DOMAIN devices : devices[i].marker
                      THEN "dfuFlash" ELSE "dfuWait"
    /\ out' = <<>>
    /\ printed' = <<>>
    /\ last' = Last("dfuWait", Frame("--list", ListRun(listing, runErr)))
    /\ UNCHANGED <<pc, flashTarget, flashErr, flashErrArg, cmd, objFiles, binary>>
    /\ FlashFrame

\* dfuFlash as it would be if it gave up only when all three parameters are
\* missing
FlashDfuParses_AnyParameter(listing, runErr) ==
    /\ FCIsRunning
    /\ flashPc = "dfuFlash"
    /\ ran' = Append(ran, "dfuFlash --list")
    /\ LET device == FirstFlashDevice(dfuList(listing), 1)
           alt == device.alt
           serial == device.serial
           offset == device.offset
       IN  IF alt = <<>> /\ serial = <<>> /\ offset = <<>>
           THEN /\ FlashReturnsErrorf("could not determine flash parameters",
                                      device.dev)
                /\ printed' = <<>>
                /\ cmd' = cmd
           ELSE /\ FlashGoesOn("download")
                /\ printed' = << <<"flashing", binary, offset>> >>
                /\ cmd' = <<Str(<<"-", "a">>), alt, Str(<<"-", "S">>), serial,
                            Str(<<"-", "s">>),
                            offset \o Str(<<":", "l", "e", "a", "v", "e">>),
                            Str(<<"-", "D">>), binary>>
    /\ out' = <<>>
    /\ last' = [op |-> "dfuFlash",
                fr |-> Frame("--list", ListRun(listing, runErr))]
    /\ UNCHANGED <<pc, flashTarget, objFiles, binary, elapsed>>
    /\ FlashFrame

\* dfuFlash: dfuList runs dfu-util --list, which prints listing; the
\* device line is parsed and the command of dfu-util -D is made
FlashDfuParses(listing, runErr) ==
    /\ FCIsRunning
    /\ flashPc = "dfuFlash"
    /\ ran' = Append(ran, "dfuFlash --list")
    /\ LET device == FirstFlashDevice(dfuList(listing), 1)
           alt == device.alt
           serial == device.serial
           offset == device.offset
       IN  IF alt = <<>> \/ serial = <<>> \/ offset = <<>>
           THEN /\ FlashReturnsErrorf("could not determine flash parameters",
                                      device.dev)
                /\ printed' = <<>>
                /\ cmd' = cmd
           ELSE /\ FlashGoesOn("download")
                /\ printed' = << <<"flashing", binary, offset>> >>
                /\ cmd' = <<Str(<<"-", "a">>), alt, Str(<<"-", "S">>), serial,
                            Str(<<"-", "s">>),
                            offset \o Str(<<":", "l", "e", "a", "v", "e">>),
                            Str(<<"-", "D">>), binary>>
    /\ out' = <<>>
    /\ last' = Last("dfuFlash", Frame("--list", ListRun(listing, runErr)))
    /\ UNCHANGED <<pc, flashTarget, objFiles, binary, elapsed>>
    /\ FlashFrame

\* dfuFlash: dfu-util -D runs and Flash returns its result
FlashDfuDownloads(ok) ==
    /\ FCIsRunning
    /\ flashPc = "download"
    /\ ran' = Append(ran, "dfu-util -D")
    /\ FlashReturns(IF ok THEN "" ELSE "dfu-util -D failed")
    /\ out' = <<>>
    /\ printed' = <<>>
    /\ last' = Last("download", NoFrame)
    /\ UNCHANGED <<pc, flashTarget, cmd, objFiles, binary, elapsed>>
    /\ FlashFrame

\* the frames the session handles beside a call of Flash: board-info frames
\* without a target name and with a whole one
FlashFrames ==
    {Frame("mspBoardInfo", id) : id \in BoardIDs}
    \cup {Frame("mspBoardInfo", id \o BoardHW \o <<Len(nm)>> \o nm) :
            id \in BoardIDs, nm \in BoardNames}

NextFlash ==
    \/ NewFCFails
    \/ NewFC
    \/ \E fr \in FlashFrames : ReadFrame(fr)
    \/ \E arg \in TargetArgs : FlashCall(arg)
    \/ \E found \in BOOLEAN : FlashLookPath(found)
    \/ \E ok \in BOOLEAN : FlashBuild(ok)
    \/ FlashReadDirFails
    \/ \E dir \in Dirs : FlashLocateBinary(dir)
    \/ \E ok \in BOOLEAN : FlashDfuReboot(ok)
    \/ FlashDfuWaitTimesOut
    \/ \E run \in ListRuns, d \in ListSeconds :
            FlashDfuWaitPolls(run.stdout, d, run.err)
    \/ \E run \in ListRuns : FlashDfuParses(run.stdout, run.err)
    \/ \E ok \in BOOLEAN : FlashDfuDownloads(ok)

\* Flash reads neither opts.EnableDebugTrace nor anything that depends on it
InitFlash == Init /\ ~enableDebugTrace

SpecFlash == InitFlash /\ [][NextFlash]_vars

\* Flash beside a session whose board disconnects and comes back
NextOverlap ==
    \/ NextFlash
    \/ ReadEOF
    \/ ReconnectFails
    \/ ReconnectSucceeds

SpecOverlap == InitFlash /\ [][NextOverlap]_vars

\* a step of Flash after its call; a poll of dfuWait that takes time
FlashProgress ==
    \/ \E found \in BOOLEAN : FlashLookPath(found)
    \/ \E ok \in BOOLEAN : FlashBuild(ok)
    \/ FlashReadDirFails
    \/ \E dir \in Dirs : FlashLocateBinary(dir)
    \/ \E ok \in BOOLEAN : FlashDfuReboot(ok)
    \/ FlashDfuWaitTimesOut
    \/ \E run \in ListRuns, d \in ListSeconds \ {0} :
            FlashDfuWaitPolls(run.stdout, d, run.err)
    \/ \E run \in ListRuns : FlashDfuParses(run.stdout, run.err)
    \/ \E ok \in BOOLEAN : FlashDfuDownloads(ok)

\* every tool that Flash runs returns, Flash goes on when it has, and time
\* advances
SpecOverlapFair == SpecOverlap /\ WF_vars(FlashProgress)

----------------------------------------------------------------------------
(* What the claims speak of. *)

InfoRequests == {updateInfo[i] : i \in DOMAIN updateInfo}

HandledFrame(code) == last.op = "frame" /\ last.fr.code = code

IdentityIsZero ==
    /\ variant = <<>>
    /\ versionMajor = 0 /\ versionMinor = 0 /\ versionPatch = 0
    /\ boardID = <<>>
    /\ targetName = <<>>
    /\ features = {}

\* how often the last step wrote command c
TimesWritten(c) == Cardinality({i \in DOMAIN out : out[i][2] = c})

\* the ports of a configuration that carry all bits of mask m
PortsWith(cfgs, m) == {i \in DOMAIN cfgs : m \subseteq cfgs[i].FunctionMask}

\* the least element of a non-empty set of numbers
Least(S) == CHOOSE i \in S : \A j \in S : i <= j

----------------------------------------------------------------------------
(* C1: right after NewFC and right after every successful reconnect the    *)
(* variant, the version triple, boardID, targetName and the feature mask   *)
(* are empty/zero, and that step wrote each of the seven info requests     *)
(* exactly once, all on the transport just opened and nothing else; no     *)
(* other step writes an info request.                                      *)
C1_ResetAndRequestOnConnect ==
    /\ last.op \in {"NewFC", "reconnected"} =>
          /\ IdentityIsZero
          /\ msp # 0 /\ msp = opened /\ msp \notin closed
          /\ Len(out) = Len(updateInfo)
          /\ \A c \in InfoRequests : TimesWritten(c) = 1
          /\ \A i \in DOMAIN out : out[i][1] = msp
    /\ last.op \notin {"NewFC", "reconnected"} =>
          \A c \in InfoRequests : TimesWritten(c) = 0

\* a reconnect has succeeded after a disconnect
C1_Witness ==
    last.op = "reconnected" /\ closed # {} /\ pc = "receive" /\ Len(out) = 7

(* C2: after a variant, version or board-info frame is handled, the        *)
(* summary line was printed if and only if the variant is non-empty, the   *)
(* version triple is not (0, 0, 0) and the boardID is non-empty.           *)
C2_SummaryIffPopulated ==
    (last.op = "frame"
       /\ last.fr.code \in {"mspFCVariant", "mspFCVersion", "mspBoardInfo"}) =>
        ((printed # <<>>) <=>
            (/\ variant # <<>>
             /\ <<versionMajor, versionMinor, versionPatch>> # <<0, 0, 0>>
             /\ boardID # <<>>))

(* C3: handling a board-info frame sets boardID to the first 4 payload     *)
(* bytes; a payload of exactly 4 bytes leaves targetName as it was (unset  *)
(* when it was unset); a payload of 9+N bytes whose byte 8 is N sets       *)
(* targetName to the N bytes after byte 8; a payload one byte short of     *)
(* that (8+N bytes) leaves targetName as it was.                           *)
C3_BoardInfo ==
    [][(last'.op = "frame" /\ last'.fr.code = "mspBoardInfo") =>
         LET p == last'.fr.payload
         IN  /\ boardID' = <<p[1], p[2], p[3], p[4]>>
             /\ Len(p) = 4 => targetName' = targetName
             /\ (Len(p) >= 9 /\ Len(p) = 9 + p[9]) =>
                    targetName' = [i \in 1..p[9] |-> p[9 + i]]
             /\ Len(p) = 8 => targetName' = targetName
             /\ (Len(p) >= 9 /\ Len(p) = 8 + p[9]) => targetName' = targetName
      ]_vars

\* a board-info frame with a two-byte target name has been handled
C3_Witness ==
    /\ HandledFrame("mspBoardInfo")
    /\ Len(last.fr.payload) = 11
    /\ last.fr.payload[9] = 2
    /\ targetName = <<84, 49>>

(* C4: a set-feature command is written only while handling a feature      *)
(* frame, and carries the debug-trace bit together with exactly the bits   *)
(* of the received mask; the stored mask keeps every received bit; and a   *)
(* feature frame whose mask has the debug-trace bit makes the step write   *)
(* no command at all, whatever the policy says.                            *)
C4_DebugTraceBitKept ==
    /\ \A i \in DOMAIN out :
          out[i][2] = "mspSetFeature" =>
              /\ HandledFrame("mspFeature")
              /\ out[i][3] = last.fr.payload \cup mspFCFeatureDebugTrace
    /\ HandledFrame("mspFeature") =>
          /\ last.fr.payload \subseteq features
          /\ mspFCFeatureDebugTrace \subseteq last.fr.payload => out = <<>>

\* a feature frame with the bit set was handled while the policy allows
C4_Witness ==
    /\ HandledFrame("mspFeature")
    /\ mspFCFeatureDebugTrace \subseteq last.fr.payload
    /\ shouldEnableDebugTrace
    /\ out = <<>>

(* C5: when the policy allows and a serial-config frame has no port with   *)
(* both bits and at least one MSP port, the step writes exactly one        *)
(* set-serial-config command carrying the whole sequence, with the         *)
(* debug-trace bit added on the first MSP port and every other entry and   *)
(* bit as received, followed by exactly one persist command; in particular *)
(* with exactly one MSP port and no debug-trace bit anywhere.              *)
C5_PatchFirstMSPPort ==
    (HandledFrame("mspCFSerialConfig") /\ ~last.fr.payload.readErr
       /\ shouldEnableDebugTrace) =>
        LET e      == last.fr.payload.entries
            mspAt  == PortsWith(e, serialFunctionMSP)
            both   == PortsWith(e, serialFunctionMSP \cup serialFunctionDebugTrace)
            expect == [i \in DOMAIN e |->
                         IF i = Least(mspAt)
                         THEN [Identifier |-> e[i].Identifier,
                               FunctionMask |-> e[i].FunctionMask
                                                 \cup serialFunctionDebugTrace]
                         ELSE e[i]]
        IN  (mspAt # {} /\ both = {}) =>
                out = << <<msp, "mspSetCFSerialConfig", expect>>,
                         <<msp, "mspEepromWrite", NoArg>> >>

\* two ports, only the second one an MSP port, none with the debug-trace bit
C5_Witness ==
    /\ HandledFrame("mspCFSerialConfig")
    /\ shouldEnableDebugTrace
    /\ ~last.fr.payload.readErr
    /\ Len(last.fr.payload.entries) = 2
    /\ PortsWith(last.fr.payload.entries, serialFunctionMSP) = {2}
    /\ PortsWith(last.fr.payload.entries, serialFunctionDebugTrace) = {}
    /\ Len(out) = 2

(* C6: when the policy allows and a serial-config frame has no MSP port,   *)
(* handling it writes no command.                                          *)
C6_NoMSPPortNoCommand ==
    (HandledFrame("mspCFSerialConfig") /\ ~last.fr.payload.readErr
       /\ shouldEnableDebugTrace
       /\ PortsWith(last.fr.payload.entries, serialFunctionMSP) = {}) =>
        out = <<>>

(* C7: a frame that triggers a patch makes the step write exactly two      *)
(* commands, the set command and then the persist command; and the guard   *)
(* of the patch is false for a further frame of that kind that reports     *)
(* what the patch has set (the feature mask or the port sequence of the    *)
(* set command), so handling it would write no command.                    *)
C7_PatchIdempotent ==
    (last.op = "frame" /\ out # <<>>) =>
        /\ Len(out) = 2
        /\ out[1][2] \in {"mspSetFeature", "mspSetCFSerialConfig"}
        /\ out[2][2] = "mspEepromWrite"
        /\ out[1][2] = "mspSetFeature" =>
              ~(out[1][3] \cap mspFCFeatureDebugTrace = {}
                  /\ shouldEnableDebugTrace)
        /\ out[1][2] = "mspSetCFSerialConfig" =>
              ~(shouldEnableDebugTrace /\ ~hasDebugTraceMSPPort(out[1][3]))

(* C8: a read that ends in io.EOF never panics: it closes the transport,   *)
(* leaves f.msp nil and enters the reconnect loop; the loop is entered in  *)
(* no other way; a failed open keeps the session in the loop with nothing  *)
(* changed; the loop is left only by a successful open, which goes back to *)
(* the receive loop with a transport that is open.                         *)
C8_ReconnectLoop ==
    [][/\ (pc = "receive" /\ last'.op = "EOF") =>
              /\ pc' = "reconnect"
              /\ msp' = 0
              /\ msp # 0 => msp \in closed'
       /\ (pc # "reconnect" /\ pc' = "reconnect") =>
              (pc = "receive" /\ last'.op = "EOF")
       /\ pc = "reconnect" =>
              /\ pc' \in {"reconnect", "receive"}
              /\ last'.op = "open failed" =>
                    (pc' = "reconnect" /\ UNCHANGED <<connVars, idVars>>)
              /\ pc' = "reconnect" => msp' = 0
              /\ pc' = "receive" =>
                    (last'.op = "reconnected" /\ msp' # 0 /\ msp' \notin closed')
              /\ last'.op = "reconnected" => pc' = "receive"
      ]_vars

\* the session sits in the reconnect loop after a failed open
C8_Witness ==
    pc = "reconnect" /\ last.op = "open failed" /\ msp = 0 /\ closed # {}

(* C9: Flash takes its argument as the target when it is non-empty and    *)
(* the detected targetName otherwise; with both empty it returns the       *)
(* "empty target name" error at once: no tool has been looked up or run    *)
(* and no command has been written, then or later.                         *)
C9_ResolveTarget ==
    /\ last.op = "Flash" =>
          LET arg == last.fr.payload
          IN  /\ arg # <<>> =>
                    (flashTarget = arg /\ flashPc = "LookPath" /\ flashErr = "")
              /\ (arg = <<>> /\ targetName # <<>>) =>
                    (flashTarget = targetName /\ flashPc = "LookPath"
                       /\ flashErr = "")
              /\ (arg = <<>> /\ targetName = <<>>) =>
                    /\ flashPc = "returned"
                    /\ flashErr = "empty target name"
                    /\ out = <<>>
    /\ flashErr = "empty target name" =>
          (flashPc = "returned" /\ ran = <<>> /\ flashTarget = <<>>)
    /\ flashPc \notin {"idle", "returned"} => flashTarget # <<>>

\* Flash has failed for want of a target on a board that has sent its
\* board info without a target name
C9_Witness ==
    /\ flashPc = "returned"
    /\ flashErr = "empty target name"
    /\ boardID # <<>>
    /\ targetName = <<>>

\* the files that match: the name ends with ".bin" and, without these four
\* bytes, with the target
Candidates(files, target) ==
    {f \in files :
        LET n == Len(f.name)
            k == Len(target)
        IN  /\ n >= 4
            /\ <<f.name[n - 3], f.name[n - 2], f.name[n - 1], f.name[n]>>
                 = <<46, 98, 105, 110>>
            /\ n - 4 >= k
            /\ \A j \in 1..k : f.name[n - 4 - k + j] = target[j]}

ExampleFiles ==
    {FileInfo(Str(<<"f", "o", "o", "T", "A", "R", "G", "E", "T", "1", ".", "b", "i", "n">>), 1),
     FileInfo(Str(<<"b", "a", "r", "T", "A", "R", "G", "E", "T", "1", ".", "b", "i", "n">>), 2),
     FileInfo(Str(<<"T", "A", "R", "G", "E", "T", "1", ".", "h", "e", "x">>), 3)}

BarBinary ==
    Str(<<"b", "a", "r", "T", "A", "R", "G", "E", "T", "1", ".", "b", "i", "n">>)

(* C10: once Flash has listed the obj directory, the binary it has chosen  *)
(* is a matching file (the name ends with ".bin" and, without that, with   *)
(* the target) that no matching file is newer than, and Flash goes on to   *)
(* the reboot; with no matching file it has returned the "could not find   *)
(* binary" error; and for fooTARGET1.bin (1), barTARGET1.bin (2),          *)
(* TARGET1.hex (3) and target TARGET1 the binary is barTARGET1.bin.        *)
C10_LocateBinary ==
    last.op = "ReadDir" =>
        LET files == {objFiles[i] : i \in DOMAIN objFiles}
            cands == Candidates(files, flashTarget)
        IN  /\ cands = {} =>
                  /\ flashPc = "returned"
                  /\ flashErr = "could not find binary for target"
                  /\ binary = <<>>
            /\ cands # {} =>
                  /\ flashPc = "dfuReboot"
                  /\ flashErr = ""
                  /\ \E f \in cands :
                        /\ binary = f.name
                        /\ \A g \in cands : g.modTime <= f.modTime
            /\ (files = ExampleFiles /\ flashTarget = TARGET1) =>
                  binary = BarBinary

\* the example of the claim has been listed and barTARGET1.bin chosen
C10_Witness ==
    /\ last.op = "ReadDir"
    /\ {objFiles[i] : i \in DOMAIN objFiles} = ExampleFiles
    /\ flashTarget = TARGET1
    /\ binary = BarBinary
    /\ flashPc = "dfuReboot"

----------------------------------------------------------------------------
(* dfuWait. *)

\* whether line k starts with dfuDevicePrefix and contains
\* internalFlashMarker
IsFlashLine ==
    [k \in DOMAIN DfuTexts |->
        LET ll == Trim(DfuTexts[k], TrimCutset)
        IN  HasPrefix(ll, dfuDevicePrefix) /\ Contains(ll, internalFlashMarker)]

\* some line of the listing is such a line
ListsFlashDevice(listing) ==
    \E i \in DOMAIN listing : IsFlashLine[listing[i]]

TimedOut == "timed out while waiting for board in DFU mode"

\* C11 (as amended): dfuWait polls dfu-util --list again and again; a poll
\* begins only while the 30 seconds since the entry of dfuWait have not
\* passed; the first listing with a "Found DFU: " line that contains the
\* internal-flash marker ends the wait with success, however late the poll
\* that printed it ends; a listing without such a line keeps it waiting;
\* once the 30 seconds have passed when a poll would begin, dfuWait returns
\* the timeout error; it never succeeds without such a line.
C11_WaitForDevice ==
    [][/\ last'.op = "dfuWait" =>
            /\ flashPc = "dfuWait"
            /\ elapsed <= DfuWaitSeconds
            /\ flashErr' = ""
            /\ flashPc' = IF ListsFlashDevice(last'.fr.payload.stdout)
                          THEN "dfuFlash" ELSE "dfuWait"
       /\ last'.op = "dfuWait timeout" =>
            /\ flashPc = "dfuWait"
            /\ elapsed > DfuWaitSeconds
            /\ flashPc' = "returned"
            /\ flashErr' = TimedOut
       /\ (flashPc = "dfuWait" /\ elapsed > DfuWaitSeconds /\ flashVars' # flashVars)
            => last'.op = "dfuWait timeout"
       /\ (flashPc = "dfuWait" /\ flashPc' = "dfuFlash")
            => last'.op = "dfuWait" /\ ListsFlashDevice(last'.fr.payload.stdout)
       /\ (flashPc = "dfuWait" /\ flashPc' = "returned") => flashErr' = TimedOut
      ]_vars

\* dfuWait has succeeded on a listing that a poll begun within the 30
\* seconds printed after them
C11_Witness ==
    /\ last.op = "dfuWait"
    /\ flashPc = "dfuFlash"
    /\ ListsFlashDevice(last.fr.payload.stdout)
    /\ elapsed = DfuWaitSeconds + 31

\* C11 as stated: unless a matching line appears within 30 seconds of the
\* entry of dfuWait, dfuWait returns the timeout error; so it succeeds only
\* on a line seen within the 30 seconds.
C11_TimeoutUnlessSeenIn30Seconds ==
    (last.op = "dfuWait" /\ flashPc = "dfuFlash") => elapsed <= DfuWaitSeconds

----------------------------------------------------------------------------
(* dfuFlash. *)

\* a line of the output without the white space around it and the prefix
DeviceOf(text) ==
    LET ll == Trim(text, TrimCutset)
    IN  SubSeq(ll, Len(dfuDevicePrefix) + 1, Len(ll))

\* line k without the white space around it and the prefix
DeviceOfLine == [k \in DOMAIN DfuTexts |-> DeviceOf(DfuTexts[k])]

\* the first "Found DFU: " line of the listing that contains the
\* internal-flash marker, without the prefix; "" if there is none
FlashLine(listing) ==
    LET marked == SelectSeq(listing, LAMBDA k : IsFlashLine[k])
    IN  IF marked = <<>> THEN <<>> ELSE DeviceOfLine[marked[1]]

Leave == Str(<<":", "l", "e", "a", "v", "e">>)

\* the device of the comment in dfuFlash, and the command made of it but for
\* the binary
GoodDevice == DeviceOf(GoodLine)
GoodCmd ==
    <<Str(<<"-", "a">>), Str(<<"0">>), Str(<<"-", "S">>), Serial,
      Str(<<"-", "s">>),
      Str(<<"0", "x", "0", "8", "0", "0", "0", "0", "0", "0">>) \o Leave,
      Str(<<"-", "D">>)>>

\* the devices with a parameter missing, and no device
UnparsedDevices ==
    {<<>>, DeviceOf(NoAltLine), DeviceOf(NoSerialLine),
     DeviceOf(BadOffsetLine)}

CouldNotParse == "could not determine flash parameters"

\* C12: dfuFlash takes from the listing of its own run of dfu-util --list
\* the first device line that contains the internal-flash marker.  With alt,
\* serial and offset all found in it, the command of the flashing tool is
\* made of them, each a part of that line: digits after alt=, the quoted
\* string after serial=, the token between the marker and the next slash;
\* the line of the comment in dfuFlash gives 0, 3276365D3336 and 0x08000000.
\* With any of them missing, or with no such line, Flash returns the error
\* that names the line and the flashing tool is never run.  The flashing
\* tool runs only with the command made that way.
C12_ParseDescriptor ==
    [][/\ last'.op = "dfuFlash" =>
            LET line == FlashLine(last'.fr.payload.stdout)
            IN  /\ flashPc = "dfuFlash"
                /\ IF line = GoodDevice
                   THEN /\ flashPc' = "download"
                        /\ flashErr' = ""
                        /\ cmd' = Append(GoodCmd, binary)
                   ELSE /\ line \in UnparsedDevices
                        /\ flashPc' = "returned"
                        /\ flashErr' = CouldNotParse
                        /\ flashErrArg' = line
                        /\ cmd' = <<>>
                /\ "dfu-util -D" \notin {ran'[i] : i \in DOMAIN ran'}
       /\ ("dfu-util -D" \in {ran'[i] : i \in DOMAIN ran'}
            /\ "dfu-util -D" \notin {ran[i] : i \in DOMAIN ran}) =>
            /\ flashPc = "download"
            /\ Len(cmd) = 8
            /\ cmd' = cmd
            /\ \E i \in DOMAIN ran : ran[i] = "dfuFlash --list"
            /\ cmd[2] # <<>> /\ cmd[4] # <<>> /\ cmd[6] # Leave
       /\ flashErr = CouldNotParse =>
            /\ flashVars' = flashVars
            /\ "dfu-util -D" \notin {ran[i] : i \in DOMAIN ran}
      ]_vars

\* dfuFlash has given up on a listing whose first line with the marker has
\* an empty serial, though a later line is complete
C12_Witness ==
    /\ last.op = "dfuFlash"
    /\ flashPc = "returned"
    /\ flashErr = CouldNotParse
    /\ flashErrArg = DeviceOf(NoSerialLine)
    /\ Len(last.fr.payload.stdout) = 2
    /\ LineText(last.fr.payload.stdout, 2) = GoodLine

----------------------------------------------------------------------------
(* The errors of the external tools. *)

\* C13: an error of an external tool of Flash (LookPath, make, dfu-util
\* --list, dfu-util -D) is returned to the caller of Flash and no later
\* step runs; a run of dfu-util --list that fails in dfuWait or in dfuFlash
\* ends Flash with that error.
C13_ToolErrorsReturned ==
    /\ (last.op \in {"dfuWait", "dfuFlash"} /\ last.fr.payload.err) =>
            /\ flashPc = "returned"
            /\ flashErr = "dfu-util --list failed"
    /\ flashErr \in {"LookPath failed", "make failed", "dfu-util -D failed",
                     "dfu-util --list failed"} => flashPc = "returned"

----------------------------------------------------------------------------
(* The order of the steps of Flash. *)

\* the tools and collaborators of Flash in the order of its steps
FlashSteps ==
    <<"LookPath", "make", "ReadDir", "RebootIntoBootloader", "dfuWait --list",
      "dfuFlash --list", "dfu-util -D">>

IsPrefix(s, t) == Len(s) <= Len(t) /\ s = SubSeq(t, 1, Len(s))

Sends(writes, code) == \E i \in DOMAIN writes : writes[i][2] = code

\* C14: Flash resolves its target, then uses its tools in the order make,
\* ReadDir, the reboot command, dfu-util --list in dfuWait, dfu-util --list
\* in dfuFlash, dfu-util -D (after LookPath, which comes before make), each
\* once, the polls of dfuWait counting as one; an error of any step ends
\* Flash and nothing of Flash runs after it has returned.  The reboot
\* command is sent only after make and ReadDir, with a binary chosen, and
\* dfu-util -D runs only after dfuWait and the parsing of dfuFlash succeeded.
C14_StepsInOrder ==
    [][/\ IsPrefix(ran', FlashSteps)
       /\ ran' # <<>> => flashTarget' # <<>>
       /\ flashErr' # "" => flashPc' = "returned"
       /\ flashPc = "returned" => flashVars' = flashVars
       /\ flashPc # "returned" => IsPrefix(ran, ran') /\ Len(ran') <= Len(ran) + 1
       /\ Sends(out', "mspRebootIntoBootloader") =>
            /\ ran = SubSeq(FlashSteps, 1, 3)
            /\ ran' = SubSeq(FlashSteps, 1, 4)
            /\ flashErr = ""
            /\ binary # <<>>
       /\ ran' = FlashSteps /\ ran # FlashSteps =>
            /\ ran = SubSeq(FlashSteps, 1, 6)
            /\ flashErr = ""
            /\ cmd # <<>>
      ]_vars

\* Flash has run all its steps and returned without an error
C14_Witness ==
    /\ ran = FlashSteps
    /\ flashPc = "returned"
    /\ flashErr = ""

----------------------------------------------------------------------------
(* The policy of the debug trace. *)

\* a < b in the lexicographic order of triples
LexLess(a, b) ==
    \E i \in 1..3 : a[i] < b[i] /\ \A j \in 1..(i - 1) : a[j] = b[j]

StoredVersion == <<versionMajor, versionMinor, versionPatch>>

\* C15: a frame is answered with a set-feature or a set-serial-config
\* command only if EnableDebugTrace was asked for, the stored variant is
\* INAV and the stored version is not below (1, 9, 0) in the lexicographic
\* order of (major, minor, patch); the persist command goes only with one of
\* the two; versionGte(major, minor, patch) is true exactly if the stored
\* version is not below (major, minor, patch) in that order.
C15_PolicyGuardsCommands ==
    /\ (last.op = "frame" /\ (Sends(out, "mspSetFeature")
                               \/ Sends(out, "mspSetCFSerialConfig"))) =>
            /\ enableDebugTrace
            /\ variant = INAV
            /\ ~LexLess(StoredVersion, <<1, 9, 0>>)
    /\ (last.op = "frame" /\ Sends(out, "mspEepromWrite")) =>
            Sends(out, "mspSetFeature") \/ Sends(out, "mspSetCFSerialConfig")
    /\ last.op = "versionGte" =>
            last.fr.payload.result
                = ~LexLess(StoredVersion, last.fr.payload.args)

\* set-feature has been sent to a board of version 9.0.x, whose minor is
\* below 9
C15_Witness ==
    /\ last.op = "frame"
    /\ Sends(out, "mspSetFeature")
    /\ Sends(out, "mspEepromWrite")
    /\ versionMajor = 9
    /\ versionMinor = 0

----------------------------------------------------------------------------
(* A recoverable error of ReadFrame. *)

\* C16: when ReadFrame returns an MSPError the loop prints it and goes on
\* reading: the session stays connected on the same transport, which is not
\* closed, nothing is written to it (no info request is sent again), no
\* reconnect begins, and variant, version, boardID, targetName and features
\* keep their values.
C16_ProtocolErrorKeepsSession ==
    [][last'.op = "MSPError" =>
            /\ pc = "receive"
            /\ pc' = "receive"
            /\ msp' = msp
            /\ msp' # 0
            /\ closed' = closed
            /\ opened' = opened
            /\ out' = <<>>
            /\ idVars' = idVars
            /\ printed' = << <<"msp error">> >>
      ]_vars

\* an MSPError has been read in a session that knows its board
C16_Witness ==
    /\ last.op = "MSPError"
    /\ pc = "receive"
    /\ variant = INAV
    /\ versionMajor = 1
    /\ boardID # <<>>
    /\ targetName # <<>>
    /\ features # {}

----------------------------------------------------------------------------
(* The debug trace and the order of the responses. *)

\* C17: EnableDebugTrace is asked for and the board answers INAV, a version
\* of at least 1.9.0 and features without the debug-trace bit; once all
\* seven requests of updateInfo are answered, in whatever order, a
\* set-feature command with the debug-trace bit and, right after it, a
\* persist command have been written.
C17_DebugTraceEnabledInAnyOrder ==
    answered = InfoRequests =>
        \E i \in 1..(Len(written) - 1) :
            /\ written[i][1] = "mspSetFeature"
            /\ mspFCFeatureDebugTrace \subseteq written[i][2]
            /\ written[i + 1][1] = "mspEepromWrite"

----------------------------------------------------------------------------
(* Flash and the session. *)

\* C18: Flash and the reconnect loop never overlap: no step of Flash runs
\* while the session is disconnected and reconnecting, that is while f.msp
\* is nil or closed; in particular dfuReboot, the one step of Flash that
\* uses the transport, sends the reboot command on an open transport.
C18_NoRebootWhileReconnecting ==
    last.op = "dfuReboot" =>
        /\ pc = "receive"
        /\ msp # 0
        /\ msp \notin closed
        /\ Sends(out, "mspRebootIntoBootloader")

----------------------------------------------------------------------------
(* The end of Flash. *)

\* C19: with every tool returning and time advancing, a call of Flash that
\* has begun returns, with success or with an error.
\* A process that has panicked (pc = "panic") takes no further step: the
\* call of Flash that ran into the nil transport never returns.
C19_FlashTerminates == (flashPc # "idle") ~> (flashPc = "returned")

============================================================================
